---- MODULE Spec2Model ----
(***************************************************************************)
(* The symbol table of src/src/symbol.c: a binary search tree of interned  *)
(* names, probed without a lock and extended under symtab_lock.            *)
(*                                                                         *)
(* Machine words are scaled down: a pointer, a size_t and a uintptr_t are  *)
(* PtrBits bits wide and a pointer occupies one byte, so that the whole    *)
(* range of hashes and lengths is covered.  Memory is sequentially         *)
(* consistent: the release store of line 97 orders a node's fields before  *)
(* its publication, and the loads of lines 53 and 71 carry a dependency    *)
(* to the fields they read.                                                *)
(***************************************************************************)
EXTENDS Integers, Sequences, FiniteSets, TLC

VARIABLES
    symtab,       \* line 19: the root slot (0 is NULL, n > 0 is nodes[n])
    nodes,        \* the permanent heap: every jl_sym_t allocated so far
    symtab_lock,  \* line 18: 0 when free, else the thread holding it
    pc,           \* each thread's position
    op,           \* the public operation the thread is in
    str,          \* argument str
    len,          \* argument len
    h,            \* symtab_lookup's h
    ptree,        \* symtab_lookup's ptree
    slot,         \* _jl_symbol's slot
    node,         \* _jl_symbol's node
    ret,          \* the value handed back to the caller
    err,          \* the exception thrown to the caller, or "none"
    known,        \* history: the symbol already returned for str when the call began
    nlocks,       \* history: mutex acquisitions of the current call
    returned,     \* history: <<name, symbol>> of every completed intern
    begun,        \* history: the names some intern call has been started for
    gs_ctr,       \* line 125: the gensym counter
    ctr,          \* jl_gensym's and jl_tagged_gensym's ctr (-1 outside them)
    tag,          \* jl_tagged_gensym's argument str
    taglen,       \* jl_tagged_gensym's len, after line 142
    buf,          \* where jl_tagged_gensym's name lives: "none", "stack" or "heap"
    gslog,        \* history: one record per gensym call, in the order of the increments
    gidx,         \* history: the record of the thread's gensym call (0 if none)
    ghist         \* history: whether the counter was set, lowered by a set, wrapped

vars == <<symtab, nodes, symtab_lock, pc, op, str, len, h, ptree, slot, node,
          ret, err, known, nlocks, returned, begun,
          gs_ctr, ctr, tag, taglen, buf, gslog, gidx, ghist>>

\* What only the gensym operations touch.
gvars == <<gs_ctr, ctr, tag, taglen, buf, gslog, gidx, ghist>>

shared == <<symtab, nodes, symtab_lock>>

(***************************************************************************)
(* Bounds and machine parameters                                           *)
(***************************************************************************)
PtrBits == 6

Threads == {1, 2}

WordMod == 2 ^ PtrBits
UINTPTR_MAX == WordMod - 1
INTPTR_MAX == 2 ^ (PtrBits - 1) - 1

SizeofTaggedvalue == 1
SizeofSym == 3

MAX_SYM_LEN == INTPTR_MAX - SizeofTaggedvalue - SizeofSym - 1

NULL == 0
Uninit == -1
UninitName == <<Uninit>>

ROOT == <<0, "root">>

(***************************************************************************)
(* Bytes, C strings                                                        *)
(***************************************************************************)
\* The byte at 1-based position i of a buffer that ends with a terminator.
At(s, i) == IF i <= Len(s) THEN s[i] ELSE 0

RECURSIVE strlenFrom(_, _)
strlenFrom(s, i) == IF At(s, i) = 0 THEN i - 1 ELSE strlenFrom(s, i + 1)

strlen(s) == strlenFrom(s, 1)

memchr0(s, n) == \E i \in 1..n : At(s, i) = 0

Sign(x) == IF x < 0 THEN -1 ELSE IF x > 0 THEN 1 ELSE 0

\* Mutant: only the first byte is compared.
strncmpFirst(s1, s2, n) == IF n = 0 THEN 0 ELSE Sign(At(s1, 1) - At(s2, 1))

RECURSIVE strncmpFrom(_, _, _, _)
strncmpFrom(s1, s2, n, i) ==
    IF i > n THEN 0
    ELSE IF At(s1, i) # At(s2, i) THEN Sign(At(s1, i) - At(s2, i))
    ELSE IF At(s1, i) = 0 THEN 0
    ELSE strncmpFrom(s1, s2, n, i + 1)

strncmp(s1, s2, n) == strncmpFrom(s1, s2, n, 1)

(***************************************************************************)
(* Hashing                                                                 *)
(***************************************************************************)
RECURSIVE Xor(_, _)
Xor(a, b) ==
    IF a = 0 THEN b
    ELSE IF b = 0 THEN a
    ELSE ((a + b) % 2) + 2 * Xor(a \div 2, b \div 2)

RECURSIVE memhashFrom(_, _, _)
memhashFrom(s, n, i) ==
    IF i > n THEN 0 ELSE (At(s, i) + memhashFrom(s, n, i + 1)) % WordMod

memhash(s, n) == memhashFrom(s, n, 1)

inthash(a) == (a * 5 + 3) % WordMod

hash_symbol(s, n) ==
    LET oid == Xor(memhash(s, n), (UINTPTR_MAX \div 3) * 2)
    IN  inthash((WordMod - oid) % WordMod)

symbol_nbytes(n) == (((SizeofSym + n + 1 + 7) % WordMod) \div 8) * 8

\* (intptr_t)(a - b)
SignedDiff(a, b) ==
    LET d == (a - b) % WordMod
    IN  IF d > INTPTR_MAX THEN d - WordMod ELSE d

(***************************************************************************)
(* Inputs                                                                  *)
(***************************************************************************)
LongName(n) == [i \in 1..n |-> 97]

\* A byte whose double is 0 modulo the word: the two-byte name made of it has
\* the hash of the empty name, which is its proper prefix.
HalfByte == 2 ^ (PtrBits - 1)

\* The names handed to _jl_symbol: the empty name, a name it is a prefix of
\* and shares its hash with, the longest name allowed and one byte more.
Names == {<<>>, <<HalfByte, HalfByte>>, LongName(MAX_SYM_LEN), LongName(MAX_SYM_LEN + 1)}

\* Terminated texts handed to jl_symbol; the second ends at its third byte.
Texts == {<<>>, <<HalfByte, HalfByte, 0, 97>>}

\* Terminated texts handed to jl_symbol_lookup.
Probes == {<<>>, <<HalfByte, HalfByte>>, LongName(MAX_SYM_LEN)}

\* (str, len) pairs handed to _jl_symbol; the last one names the first bytes
\* of a longer buffer.
Sized == {<<s, Len(s)>> : s \in Names}
             \cup {<<LongName(MAX_SYM_LEN + 1), MAX_SYM_LEN>>}

\* (str, len) pairs handed to jl_symbol_n; the second holds a terminator.
Checked == {<<s, Len(s)>> : s \in {<<HalfByte, HalfByte>>,
                                    <<HalfByte, HalfByte, 0, 97>>,
                                    LongName(MAX_SYM_LEN + 1)}}

NameOf(s, n) == SubSeq(s, 1, n)

(***************************************************************************)
(* Slots                                                                   *)
(***************************************************************************)
ReadSlot(sl) == IF sl = ROOT THEN symtab ELSE nodes[sl[1]][sl[2]]

Init ==
    /\ symtab = NULL
    /\ nodes = <<>>
    /\ symtab_lock = 0
    /\ pc = [t \in Threads |-> "idle"]
    /\ op = [t \in Threads |-> "none"]
    /\ str = [t \in Threads |-> <<>>]
    /\ len = [t \in Threads |-> 0]
    /\ h = [t \in Threads |-> 0]
    /\ ptree = [t \in Threads |-> ROOT]
    /\ slot = [t \in Threads |-> ROOT]
    /\ node = [t \in Threads |-> NULL]
    /\ ret = [t \in Threads |-> NULL]
    /\ err = [t \in Threads |-> "none"]
    /\ known = [t \in Threads |-> NULL]
    /\ nlocks = [t \in Threads |-> 0]
    /\ returned = {}
    /\ begun = {}
    /\ gs_ctr = 0
    /\ ctr = [t \in Threads |-> Uninit]
    /\ tag = [t \in Threads |-> <<>>]
    /\ taglen = [t \in Threads |-> 0]
    /\ buf = [t \in Threads |-> "none"]
    /\ gslog = <<>>
    /\ gidx = [t \in Threads |-> 0]
    /\ ghist = [set |-> FALSE, lowered |-> FALSE, wrapped |-> FALSE]

(***************************************************************************)
(* symtab_lookup, lines 51-76                                              *)
(***************************************************************************)
\* lines 58-60: the sign that picks the direction at node nd
Compare(hh, s, n, nd) ==
    LET x == SignedDiff(hh, nd.hash)
    IN  IF x = 0 THEN strncmp(s, nd.name, n) ELSE x

\* Mutant: the terminator of the stored name is not looked at, so a probe
\* matches any stored name it is a prefix of.
MatchesPrefix(hh, s, n, nd) ==
    /\ SignedDiff(hh, nd.hash) = 0
    /\ strncmp(s, nd.name, n) = 0

\* lines 59-61: the probe is the node's name
Matches(hh, s, n, nd) ==
    /\ SignedDiff(hh, nd.hash) = 0
    /\ strncmp(s, nd.name, n) = 0
    /\ At(nd.name, n + 1) = 0

\* lines 67-70
Descend(x, n) == IF x < 0 THEN <<n, "left">> ELSE <<n, "right">>

\* The history of a call that has begun for the name nm.
KnownFor(nm) ==
    IF \E p \in returned : p[1] = nm
    THEN (CHOOSE p \in returned : p[1] = nm)[2]
    ELSE NULL

IsIntern(o) == o \in {"_jl_symbol", "jl_symbol", "jl_symbol_n"}

Throw(t, o, s, n, e) ==
    /\ pc' = [pc EXCEPT ![t] = "ret"]
    /\ op' = [op EXCEPT ![t] = o]
    /\ str' = [str EXCEPT ![t] = s]
    /\ len' = [len EXCEPT ![t] = n]
    /\ err' = [err EXCEPT ![t] = e]
    /\ UNCHANGED <<h, ptree, slot, node, ret, nlocks>>

StartProbe(t, o, s, n) ==
    /\ pc' = [pc EXCEPT ![t] = "probe1"]
    /\ op' = [op EXCEPT ![t] = o]
    /\ str' = [str EXCEPT ![t] = s]
    /\ len' = [len EXCEPT ![t] = n]
    /\ h' = [h EXCEPT ![t] = hash_symbol(s, n)]
    /\ ptree' = [ptree EXCEPT ![t] = ROOT]
    /\ UNCHANGED <<slot, node, ret, err, nlocks>>

\* Mutant: the bound is off by one.
TooLongGe(n) == n >= MAX_SYM_LEN

\* line 83
TooLong(n) == n > MAX_SYM_LEN

\* lines 78-88: the length check, then the first, unlocked probe begins
Enter_jl_symbol(t, o, s, n) ==
    /\ known' = [known EXCEPT ![t] = KnownFor(NameOf(s, n))]
    /\ begun' = begun \cup {NameOf(s, n)}
    /\ IF TooLong(n)
       THEN Throw(t, o, s, n, "NameTooLong")
       ELSE StartProbe(t, o, s, n)
    /\ UNCHANGED <<shared, returned>>

\* line 78, called with one of the (str, len) pairs of S that hold no
\* terminator (line 86)
jl_symbol_len_on(t, S) ==
    /\ pc[t] = "idle"
    /\ \E a \in S :
          /\ ~memchr0(a[1], a[2])
          /\ Enter_jl_symbol(t, "_jl_symbol", a[1], a[2])
    /\ UNCHANGED gvars

Call_jl_symbol_len(t) == jl_symbol_len_on(t, Sized)

\* lines 103-106
Call_jl_symbol(t) ==
    /\ pc[t] = "idle"
    /\ \E s \in Texts : Enter_jl_symbol(t, "jl_symbol", s, strlen(s))
    /\ UNCHANGED gvars

\* Mutant: the name is not searched for a terminator.
Call_jl_symbol_n_Unchecked(t) ==
    /\ pc[t] = "idle"
    /\ \E a \in Checked : Enter_jl_symbol(t, "jl_symbol_n", a[1], a[2])
    /\ UNCHANGED gvars

\* lines 113-118, called with one of the (str, len) pairs of S
jl_symbol_n_on(t, S) ==
    /\ pc[t] = "idle"
    /\ \E a \in S :
          IF memchr0(a[1], a[2])
          THEN /\ Throw(t, "jl_symbol_n", a[1], a[2], "EmbeddedNul")
               /\ UNCHANGED <<shared, known, returned, begun>>
          ELSE Enter_jl_symbol(t, "jl_symbol_n", a[1], a[2])
    /\ UNCHANGED gvars

Call_jl_symbol_n(t) == jl_symbol_n_on(t, Checked)

\* lines 108-111, called with one of the terminated texts of S
jl_symbol_lookup_on(t, S) ==
    /\ pc[t] = "idle"
    /\ \E s \in S :
          /\ known' = [known EXCEPT ![t] = KnownFor(NameOf(s, strlen(s)))]
          /\ StartProbe(t, "jl_symbol_lookup", s, strlen(s))
    /\ UNCHANGED <<shared, returned, begun>>
    /\ UNCHANGED gvars

Call_jl_symbol_lookup(t) == jl_symbol_lookup_on(t, Probes)

\* Mutant: a lookup that misses goes on to insert, as an intern does.
AfterLookupInsert(t, n) ==
    IF pc[t] = "probe1"
    THEN IF n # NULL
         THEN /\ pc' = [pc EXCEPT ![t] = "ret"]
              /\ ret' = [ret EXCEPT ![t] = n]
         ELSE /\ pc' = [pc EXCEPT ![t] = "lock"]
              /\ UNCHANGED ret
    ELSE /\ pc' = [pc EXCEPT ![t] = IF n # NULL THEN "unlock_found" ELSE "mk_alloc"]
         /\ UNCHANGED ret

\* Where a finished search goes: lines 88-89, 92-95, 110
AfterLookup(t, n) ==
    IF pc[t] = "probe1"
    THEN IF op[t] = "jl_symbol_lookup" \/ n # NULL
         THEN /\ pc' = [pc EXCEPT ![t] = "ret"]
              /\ ret' = [ret EXCEPT ![t] = n]
         ELSE /\ pc' = [pc EXCEPT ![t] = "lock"]
              /\ UNCHANGED ret
    ELSE /\ pc' = [pc EXCEPT ![t] = IF n # NULL THEN "unlock_found" ELSE "mk_alloc"]
         /\ UNCHANGED ret

\* lines 53-75: one load of *ptree and the comparison with the node loaded
LookupStep(t) ==
    /\ pc[t] \in {"probe1", "probe2"}
    /\ LET n == ReadSlot(ptree[t]) IN
       IF n = NULL \/ Matches(h[t], str[t], len[t], nodes[n])
       THEN /\ slot' = [slot EXCEPT ![t] = ptree[t]]
            /\ node' = [node EXCEPT ![t] = n]
            /\ AfterLookup(t, n)
            /\ UNCHANGED ptree
       ELSE /\ ptree' = [ptree EXCEPT ![t] =
                            Descend(Compare(h[t], str[t], len[t], nodes[n]), n)]
            /\ UNCHANGED <<slot, node, ret, pc>>
    /\ UNCHANGED <<shared, op, str, len, h, err, known, nlocks, returned, begun>>
    /\ UNCHANGED gvars

(***************************************************************************)
(* _jl_symbol, the path under the mutex, lines 89-99                       *)
(***************************************************************************)
\* Mutant: the mutex is taken whether or not it is free.
LockNoWait(t) ==
    /\ pc[t] = "lock"
    /\ symtab_lock' = t
    /\ nlocks' = [nlocks EXCEPT ![t] = @ + 1]
    /\ pc' = [pc EXCEPT ![t] = "recheck"]
    /\ UNCHANGED <<symtab, nodes, op, str, len, h, ptree, slot, node, ret, err,
                   known, returned, begun>>
    /\ UNCHANGED gvars

\* line 90
Lock(t) ==
    /\ pc[t] = "lock"
    /\ symtab_lock = 0
    /\ symtab_lock' = t
    /\ nlocks' = [nlocks EXCEPT ![t] = @ + 1]
    /\ pc' = [pc EXCEPT ![t] = "recheck"]
    /\ UNCHANGED <<symtab, nodes, op, str, len, h, ptree, slot, node, ret, err,
                   known, returned, begun>>
    /\ UNCHANGED gvars

\* Mutant: no second look under the mutex.
RecheckNone(t) ==
    /\ pc[t] = "recheck"
    /\ pc' = [pc EXCEPT ![t] = "mk_alloc"]
    /\ UNCHANGED <<shared, op, str, len, h, ptree, slot, node, ret, err, known,
                   nlocks, returned, begun>>
    /\ UNCHANGED gvars

\* line 92: the load of *slot that decides whether to search again
Recheck(t) ==
    /\ pc[t] = "recheck"
    /\ IF ReadSlot(slot[t]) # NULL
       THEN /\ pc' = [pc EXCEPT ![t] = "probe2"]
            /\ ptree' = [ptree EXCEPT ![t] = slot[t]]
       ELSE /\ pc' = [pc EXCEPT ![t] = "mk_alloc"]
            /\ UNCHANGED ptree
    /\ UNCHANGED <<shared, op, str, len, h, slot, node, ret, err, known, nlocks,
                   returned, begun>>
    /\ UNCHANGED gvars

\* lines 93-94
UnlockFound(t) ==
    /\ pc[t] = "unlock_found"
    /\ symtab_lock' = 0
    /\ ret' = [ret EXCEPT ![t] = node[t]]
    /\ pc' = [pc EXCEPT ![t] = "ret"]
    /\ UNCHANGED <<symtab, nodes, op, str, len, h, ptree, slot, node, err, known,
                   nlocks, returned, begun>>
    /\ UNCHANGED gvars

threadLocal == <<op, str, len, h, ptree, slot, err, known, nlocks, returned, begun,
                 gvars>>

\* Mutant: the block is stored into the slot as soon as it is allocated.
MkAllocPublished(t) ==
    /\ pc[t] = "mk_alloc"
    /\ LET new == [name |-> UninitName, hash |-> Uninit,
                   left |-> Uninit, right |-> Uninit]
       IN  IF slot[t] = ROOT
           THEN /\ symtab' = Len(nodes) + 1
                /\ nodes' = Append(nodes, new)
           ELSE /\ nodes' = Append([nodes EXCEPT ![slot[t][1]][slot[t][2]] =
                                                     Len(nodes) + 1], new)
                /\ UNCHANGED symtab
    /\ node' = [node EXCEPT ![t] = Len(nodes) + 1]
    /\ pc' = [pc EXCEPT ![t] = "mk_children"]
    /\ UNCHANGED <<symtab_lock, ret, threadLocal>>

\* lines 37-42: the block comes from the permanent heap with nothing written
MkAlloc(t) ==
    /\ pc[t] = "mk_alloc"
    /\ symbol_nbytes(len[t]) >= SizeofSym + len[t] + 1
    /\ nodes' = Append(nodes, [name |-> UninitName, hash |-> Uninit,
                               left |-> Uninit, right |-> Uninit])
    /\ node' = [node EXCEPT ![t] = Len(nodes) + 1]
    /\ pc' = [pc EXCEPT ![t] = "mk_children"]
    /\ UNCHANGED <<symtab, symtab_lock, ret, threadLocal>>

\* lines 43-44
MkChildren(t) ==
    /\ pc[t] = "mk_children"
    /\ nodes' = [nodes EXCEPT ![node[t]].left = NULL, ![node[t]].right = NULL]
    /\ pc' = [pc EXCEPT ![t] = "mk_hash"]
    /\ UNCHANGED <<symtab, symtab_lock, node, ret, threadLocal>>

\* Mutant: the stored hash is the content hash, without the final mixing.
MkHashRaw(t) ==
    /\ pc[t] = "mk_hash"
    /\ nodes' = [nodes EXCEPT ![node[t]].hash = memhash(str[t], len[t])]
    /\ pc' = [pc EXCEPT ![t] = "mk_name"]
    /\ UNCHANGED <<symtab, symtab_lock, node, ret, threadLocal>>

\* line 45
MkHash(t) ==
    /\ pc[t] = "mk_hash"
    /\ nodes' = [nodes EXCEPT ![node[t]].hash = hash_symbol(str[t], len[t])]
    /\ pc' = [pc EXCEPT ![t] = "mk_name"]
    /\ UNCHANGED <<symtab, symtab_lock, node, ret, threadLocal>>

\* Mutant: the whole buffer is copied, not its first len bytes.
MkNameWhole(t) ==
    /\ pc[t] = "mk_name"
    /\ nodes' = [nodes EXCEPT ![node[t]].name = str[t]]
    /\ pc' = [pc EXCEPT ![t] = "publish"]
    /\ UNCHANGED <<symtab, symtab_lock, node, ret, threadLocal>>

\* lines 46-48
MkName(t) ==
    /\ pc[t] = "mk_name"
    /\ nodes' = [nodes EXCEPT ![node[t]].name = NameOf(str[t], len[t])]
    /\ pc' = [pc EXCEPT ![t] = "publish"]
    /\ UNCHANGED <<symtab, symtab_lock, node, ret, threadLocal>>

\* Mutant: the node is stored into the root, whatever slot the search found.
PublishAtRoot(t) ==
    /\ pc[t] = "publish"
    /\ symtab' = node[t]
    /\ pc' = [pc EXCEPT ![t] = "unlock"]
    /\ UNCHANGED <<nodes, symtab_lock, node, ret, threadLocal>>

\* line 97
Publish(t) ==
    /\ pc[t] = "publish"
    /\ IF slot[t] = ROOT
       THEN /\ symtab' = node[t]
            /\ UNCHANGED nodes
       ELSE /\ nodes' = [nodes EXCEPT ![slot[t][1]][slot[t][2]] = node[t]]
            /\ UNCHANGED symtab
    /\ pc' = [pc EXCEPT ![t] = "unlock"]
    /\ UNCHANGED <<symtab_lock, node, ret, threadLocal>>

\* Mutant: the function returns with the mutex held.
UnlockKept(t) ==
    /\ pc[t] = "unlock"
    /\ ret' = [ret EXCEPT ![t] = node[t]]
    /\ pc' = [pc EXCEPT ![t] = "ret"]
    /\ UNCHANGED <<symtab, nodes, symtab_lock, node, threadLocal>>

\* lines 98-100
Unlock(t) ==
    /\ pc[t] = "unlock"
    /\ symtab_lock' = 0
    /\ ret' = [ret EXCEPT ![t] = node[t]]
    /\ pc' = [pc EXCEPT ![t] = "ret"]
    /\ UNCHANGED <<symtab, nodes, node, threadLocal>>

\* The caller receives the result or the exception; jl_tagged_gensym first
\* frees a name it took from the heap (lines 161-163).
Return(t) ==
    /\ pc[t] = "ret"
    /\ returned' = IF IsIntern(op[t]) /\ err[t] = "none"
                   THEN returned \cup {<<NameOf(str[t], len[t]), ret[t]>>}
                   ELSE returned
    /\ pc' = [pc EXCEPT ![t] = "idle"]
    /\ op' = [op EXCEPT ![t] = "none"]
    /\ str' = [str EXCEPT ![t] = <<>>]
    /\ len' = [len EXCEPT ![t] = 0]
    /\ h' = [h EXCEPT ![t] = 0]
    /\ ptree' = [ptree EXCEPT ![t] = ROOT]
    /\ slot' = [slot EXCEPT ![t] = ROOT]
    /\ node' = [node EXCEPT ![t] = NULL]
    /\ ret' = [ret EXCEPT ![t] = NULL]
    /\ err' = [err EXCEPT ![t] = "none"]
    /\ known' = [known EXCEPT ![t] = NULL]
    /\ nlocks' = [nlocks EXCEPT ![t] = 0]
    /\ gslog' = IF gidx[t] # 0 THEN [gslog EXCEPT ![gidx[t]].sym = ret[t]] ELSE gslog
    /\ gidx' = [gidx EXCEPT ![t] = 0]
    /\ ctr' = [ctr EXCEPT ![t] = Uninit]
    /\ tag' = [tag EXCEPT ![t] = <<>>]
    /\ taglen' = [taglen EXCEPT ![t] = 0]
    /\ buf' = [buf EXCEPT ![t] = "none"]
    /\ UNCHANGED <<shared, begun, gs_ctr, ghist>>

(***************************************************************************)
(* The gensym counter, lines 125-164                                       *)
(***************************************************************************)
\* The counter is a uint32_t, scaled down to CtrBits bits.
CtrBits == 4
CtrMod == 2 ^ CtrBits
CtrMax == CtrMod - 1

\* At most this many gensym calls take a counter value.
MaxGensyms == 2

\* line 147: sizeof(gs_name); line 134: sizeof(name) - 2
GsNameSize == 14

\* line 141: (size_t)-1
SIZE_MAX == WordMod - 1

\* line 151: the length from which the name is built on the heap; 256 is
\* scaled down with the word.
HeapThreshold == 2 ^ (PtrBits - 4)

RECURSIVE DecDigits(_)
DecDigits(n) ==
    IF n < 10 THEN <<48 + n>> ELSE Append(DecDigits(n \div 10), 48 + (n % 10))

\* uint2str(dest, size, num, 10): the digits, written from the end of dest
\* backwards after a terminator; what does not fit is dropped.
uint2str(size, num) ==
    LET d == DecDigits(num)
    IN  IF Len(d) > size - 1 THEN SubSeq(d, Len(d) - size + 2, Len(d)) ELSE d

\* Mutant: the counter is advanced by two.
NextCtrTwo(c) == (c + 2) % CtrMod

\* line 133, line 157: the value the counter takes
NextCtr(c) == (c + 1) % CtrMod

\* Mutant: only one '#' is put before the digits.
gensym_name_one(c) == <<35>> \o uint2str(GsNameSize, c)

\* lines 134-135: the text jl_gensym hands to jl_symbol
gensym_name(c) == <<35, 35>> \o uint2str(GsNameSize, c)

\* Mutant: room is counted for one digit only.
TagTooLongOneDigit(n) == n > MAX_SYM_LEN \/ (n + 4) % WordMod > MAX_SYM_LEN

\* lines 148-149
TagTooLong(n) ==
    LET alloc_len == (GsNameSize + n + 3) % WordMod
    IN  n > MAX_SYM_LEN \/ alloc_len > MAX_SYM_LEN

\* Mutant: the '#' that ends the tag is written before the tag.
tagged_name_front(s, n, c) ==
    <<35, 35, 35>> \o NameOf(s, n) \o uint2str(GsNameSize, c)

\* lines 153-159: the bytes of name up to its terminator
tagged_name(s, n, c) ==
    <<35, 35>> \o NameOf(s, n) \o <<35>> \o uint2str(GsNameSize, c)

\* Mutant: the length handed on is one byte short.
tagged_len_short(n, c) ==
    LET alloc_len == (GsNameSize + n + 3) % WordMod
        noff == GsNameSize - 1 - Len(uint2str(GsNameSize, c))
    IN  (alloc_len - noff - 2) % WordMod

\* line 160: the length handed to _jl_symbol
tagged_len(n, c) ==
    LET alloc_len == (GsNameSize + n + 3) % WordMod
        noff == GsNameSize - 1 - Len(uint2str(GsNameSize, c))
    IN  (alloc_len - noff - 1) % WordMod

\* Mutant: the counter is read and left as it is.
FetchAddStuck(t, o, tg, n) ==
    /\ Len(gslog) < MaxGensyms
    /\ gs_ctr' = gs_ctr
    /\ ctr' = [ctr EXCEPT ![t] = gs_ctr]
    /\ tag' = [tag EXCEPT ![t] = tg]
    /\ taglen' = [taglen EXCEPT ![t] = n]
    /\ gslog' = Append(gslog, [op |-> o, ctr |-> gs_ctr, tag |-> NameOf(tg, n),
                               sym |-> NULL])
    /\ gidx' = [gidx EXCEPT ![t] = Len(gslog) + 1]
    /\ ghist' = [ghist EXCEPT !.wrapped = @ \/ gs_ctr = CtrMax]

\* Mutant: the read and the write of the counter are two accesses, and the
\* write of a call that overlaps another one is lost.
FetchAddRacy(t, o, tg, n) ==
    /\ Len(gslog) < MaxGensyms
    /\ gs_ctr' = IF \E u \in Threads : gidx[u] # 0 THEN gs_ctr ELSE NextCtr(gs_ctr)
    /\ ctr' = [ctr EXCEPT ![t] = gs_ctr]
    /\ tag' = [tag EXCEPT ![t] = tg]
    /\ taglen' = [taglen EXCEPT ![t] = n]
    /\ gslog' = Append(gslog, [op |-> o, ctr |-> gs_ctr, tag |-> NameOf(tg, n),
                               sym |-> NULL])
    /\ gidx' = [gidx EXCEPT ![t] = Len(gslog) + 1]
    /\ ghist' = [ghist EXCEPT !.wrapped = @ \/ gs_ctr = CtrMax]

\* The counter is read and advanced in one atomic step (fetch_add).
FetchAdd(t, o, tg, n) ==
    /\ Len(gslog) < MaxGensyms
    /\ gs_ctr' = NextCtr(gs_ctr)
    /\ ctr' = [ctr EXCEPT ![t] = gs_ctr]
    /\ tag' = [tag EXCEPT ![t] = tg]
    /\ taglen' = [taglen EXCEPT ![t] = n]
    /\ gslog' = Append(gslog, [op |-> o, ctr |-> gs_ctr, tag |-> NameOf(tg, n),
                               sym |-> NULL])
    /\ gidx' = [gidx EXCEPT ![t] = Len(gslog) + 1]
    /\ ghist' = [ghist EXCEPT !.wrapped = @ \/ gs_ctr = CtrMax]

\* Mutant: the name is made from the value the counter has after the call.
Call_jl_gensym_post(t) ==
    /\ pc[t] = "idle"
    /\ FetchAdd(t, "jl_gensym", <<>>, 0)
    /\ Enter_jl_symbol(t, "jl_gensym", gensym_name(NextCtr(gs_ctr)),
                       strlen(gensym_name(NextCtr(gs_ctr))))
    /\ UNCHANGED buf

\* lines 129-137
Call_jl_gensym(t) ==
    /\ pc[t] = "idle"
    /\ FetchAdd(t, "jl_gensym", <<>>, 0)
    /\ Enter_jl_symbol(t, "jl_gensym", gensym_name(gs_ctr), strlen(gensym_name(gs_ctr)))
    /\ UNCHANGED buf

TagByte == 116

LongTag(n) == [i \in 1..n |-> TagByte]

\* The longest tag jl_tagged_gensym accepts.
TagMax == MAX_SYM_LEN - GsNameSize - 3

\* (str, len) pairs handed to jl_tagged_gensym: a short tag, the same as a
\* terminated text, a tag with a terminator in it, the longest tag accepted,
\* one byte more, and a tag so long that the size of its buffer wraps.
TagArgs ==
    {<< <<TagByte>>, 1 >>,
     << <<TagByte, 0, TagByte>>, SIZE_MAX >>,
     << <<TagByte, 0, TagByte>>, 3 >>,
     <<LongTag(TagMax), TagMax>>,
     <<LongTag(TagMax + 1), TagMax + 1>>,
     <<LongTag(WordMod - GsNameSize - 3), WordMod - GsNameSize - 3>>}

\* Mutant: the counter is advanced before the tag is checked.
ThrowTaggedCounted(t, s, n, e) ==
    /\ Throw(t, "jl_tagged_gensym", s, n, e)
    /\ gs_ctr' = NextCtr(gs_ctr)
    /\ UNCHANGED <<shared, known, returned, begun, ctr, tag, taglen, buf, gslog,
                   gidx, ghist>>

\* lines 143-149: the exception leaves the function
ThrowTagged(t, s, n, e) ==
    /\ Throw(t, "jl_tagged_gensym", s, n, e)
    /\ UNCHANGED <<shared, known, returned, begun, gvars>>

\* lines 139-160, called with one of the (str, len) pairs of S
jl_tagged_gensym_on(t, S) ==
    /\ pc[t] = "idle"
    /\ \E a \in S :
          LET n == IF a[2] = SIZE_MAX THEN strlen(a[1]) ELSE a[2] IN
          IF a[2] # SIZE_MAX /\ memchr0(a[1], a[2])
          THEN ThrowTagged(t, a[1], n, "EmbeddedNul")
          ELSE IF TagTooLong(n)
          THEN ThrowTagged(t, a[1], n, "NameTooLong")
          ELSE /\ FetchAdd(t, "jl_tagged_gensym", a[1], n)
               /\ buf' = [buf EXCEPT ![t] = IF n >= HeapThreshold
                                            THEN "heap" ELSE "stack"]
               /\ Enter_jl_symbol(t, "jl_tagged_gensym",
                                  tagged_name(a[1], n, gs_ctr), tagged_len(n, gs_ctr))

Call_jl_tagged_gensym(t) == jl_tagged_gensym_on(t, TagArgs)

\* The pairs of TagArgs that jl_tagged_gensym rejects.
BadTagArgs ==
    {a \in TagArgs :
        a[2] # SIZE_MAX /\ (memchr0(a[1], a[2]) \/ TagTooLong(a[2]))}

Bad_jl_tagged_gensym(t) == jl_tagged_gensym_on(t, BadTagArgs)

\* The values handed to jl_set_gs_ctr.
SetValues == {0, CtrMax}

\* line 127, called with one of the values of S
jl_set_gs_ctr_on(t, S) ==
    /\ pc[t] = "idle"
    /\ \E v \in S :
          /\ gs_ctr' = v
          /\ ghist' = [ghist EXCEPT !.set = TRUE, !.lowered = @ \/ v < gs_ctr]
    /\ UNCHANGED <<shared, pc, op, str, len, h, ptree, slot, node, ret, err, known,
                   nlocks, returned, begun, ctr, tag, taglen, buf, gslog, gidx>>

Call_jl_set_gs_ctr(t) == jl_set_gs_ctr_on(t, SetValues)

\* Mutant: reading the counter clears it.
Call_jl_get_gs_ctr_clear(t) ==
    /\ pc[t] = "idle"
    /\ pc' = [pc EXCEPT ![t] = "ret"]
    /\ op' = [op EXCEPT ![t] = "jl_get_gs_ctr"]
    /\ ctr' = [ctr EXCEPT ![t] = gs_ctr]
    /\ gs_ctr' = 0
    /\ UNCHANGED <<shared, str, len, h, ptree, slot, node, ret, err, known, nlocks,
                   returned, begun, tag, taglen, buf, gslog, gidx, ghist>>

\* line 126
Call_jl_get_gs_ctr(t) ==
    /\ pc[t] = "idle"
    /\ pc' = [pc EXCEPT ![t] = "ret"]
    /\ op' = [op EXCEPT ![t] = "jl_get_gs_ctr"]
    /\ ctr' = [ctr EXCEPT ![t] = gs_ctr]
    /\ UNCHANGED <<shared, str, len, h, ptree, slot, node, ret, err, known, nlocks,
                   returned, begun, gs_ctr, tag, taglen, buf, gslog, gidx, ghist>>

\* Names a caller writes: one that looks like a gensym, one that does not,
\* and one that is too long.
UserSized ==
    {<< <<35, 35, 48>>, 3 >>, << <<35, 48>>, 2 >>,
     <<LongName(MAX_SYM_LEN + 1), MAX_SYM_LEN + 1>>}

User_jl_symbol_len(t) == jl_symbol_len_on(t, UserSized)

\* (str, len) pairs that jl_symbol_n rejects.
Rejected ==
    {<< <<35, 0, 48>>, 3 >>, <<LongName(MAX_SYM_LEN + 1), MAX_SYM_LEN + 1>>}

Rejected_jl_symbol_n(t) == jl_symbol_n_on(t, Rejected)

Next ==
    \E t \in Threads :
        \/ Call_jl_symbol_len(t)
        \/ Call_jl_symbol(t)
        \/ Call_jl_symbol_n(t)
        \/ Call_jl_symbol_lookup(t)
        \/ LookupStep(t)
        \/ Lock(t)
        \/ Recheck(t)
        \/ UnlockFound(t)
        \/ MkAlloc(t)
        \/ MkChildren(t)
        \/ MkHash(t)
        \/ MkName(t)
        \/ Publish(t)
        \/ Unlock(t)
        \/ Return(t)

Spec == Init /\ [][Next]_vars

\* The gensym operations.
NextG ==
    \E t \in Threads :
        \/ Call_jl_gensym(t)
        \/ Call_jl_tagged_gensym(t)
        \/ Call_jl_set_gs_ctr(t)
        \/ Call_jl_get_gs_ctr(t)
        \/ LookupStep(t)
        \/ Lock(t)
        \/ Recheck(t)
        \/ UnlockFound(t)
        \/ MkAlloc(t)
        \/ MkChildren(t)
        \/ MkHash(t)
        \/ MkName(t)
        \/ Publish(t)
        \/ Unlock(t)
        \/ Return(t)

SpecG == Init /\ [][NextG]_vars

\* jl_gensym next to interns of names a caller writes and to the calls that
\* are rejected.
NextU ==
    \E t \in Threads :
        \/ Call_jl_gensym(t)
        \/ Bad_jl_tagged_gensym(t)
        \/ User_jl_symbol_len(t)
        \/ Rejected_jl_symbol_n(t)
        \/ LookupStep(t)
        \/ Lock(t)
        \/ Recheck(t)
        \/ UnlockFound(t)
        \/ MkAlloc(t)
        \/ MkChildren(t)
        \/ MkHash(t)
        \/ MkName(t)
        \/ Publish(t)
        \/ Unlock(t)
        \/ Return(t)

SpecU == Init /\ [][NextU]_vars

\* A byte that is 0 modulo the word: it adds nothing to the hash of a name.
CollByte == WordMod

\* Names that all have one hash, each a proper prefix of the next.
CollNames == {<<>>, <<CollByte>>, <<CollByte, CollByte>>}

Coll_jl_symbol_len(t) == jl_symbol_len_on(t, {<<s, Len(s)>> : s \in CollNames})

Coll_jl_symbol_lookup(t) == jl_symbol_lookup_on(t, CollNames)

\* Interns and lookups of names that collide.
NextP ==
    \E t \in Threads :
        \/ Coll_jl_symbol_len(t)
        \/ Coll_jl_symbol_lookup(t)
        \/ LookupStep(t)
        \/ Lock(t)
        \/ Recheck(t)
        \/ UnlockFound(t)
        \/ MkAlloc(t)
        \/ MkChildren(t)
        \/ MkHash(t)
        \/ MkName(t)
        \/ Publish(t)
        \/ Unlock(t)
        \/ Return(t)

SpecP == Init /\ [][NextP]_vars

\* A step of a call of thread t that nothing but the scheduler can delay.
Step(t) ==
    \/ LookupStep(t)
    \/ Recheck(t)
    \/ UnlockFound(t)
    \/ MkAlloc(t)
    \/ MkChildren(t)
    \/ MkHash(t)
    \/ MkName(t)
    \/ Publish(t)
    \/ Unlock(t)

\* Fair scheduling: a thread that can take a step takes one, and a thread
\* that waits for the mutex gets it if the mutex is free again and again.
Fairness == \A t \in Threads : WF_vars(Step(t)) /\ SF_vars(Lock(t))

SpecFair == Init /\ [][NextP]_vars /\ Fairness

\* Mutant: the node made last is returned.
Call_jl_get_root_symbol_last(t) ==
    /\ pc[t] = "idle"
    /\ pc' = [pc EXCEPT ![t] = "ret"]
    /\ op' = [op EXCEPT ![t] = "jl_get_root_symbol"]
    /\ ret' = [ret EXCEPT ![t] = Len(nodes)]
    /\ UNCHANGED <<shared, str, len, h, ptree, slot, node, err, known, nlocks,
                   returned, begun, gvars>>

\* lines 120-123
Call_jl_get_root_symbol(t) ==
    /\ pc[t] = "idle"
    /\ pc' = [pc EXCEPT ![t] = "ret"]
    /\ op' = [op EXCEPT ![t] = "jl_get_root_symbol"]
    /\ ret' = [ret EXCEPT ![t] = symtab]
    /\ UNCHANGED <<shared, str, len, h, ptree, slot, node, err, known, nlocks,
                   returned, begun, gvars>>

Root_jl_symbol_len(t) == jl_symbol_len_on(t, {<< <<35, 48>>, 2 >>})

Root_jl_symbol_lookup(t) == jl_symbol_lookup_on(t, {<<35, 48>>})

Root_jl_tagged_gensym(t) == jl_tagged_gensym_on(t, {<< <<TagByte>>, 1 >>})

\* jl_get_root_symbol next to the operations that return symbols.
NextR ==
    \E t \in Threads :
        \/ Call_jl_get_root_symbol(t)
        \/ Call_jl_gensym(t)
        \/ Root_jl_tagged_gensym(t)
        \/ Root_jl_symbol_len(t)
        \/ Root_jl_symbol_lookup(t)
        \/ LookupStep(t)
        \/ Lock(t)
        \/ Recheck(t)
        \/ UnlockFound(t)
        \/ MkAlloc(t)
        \/ MkChildren(t)
        \/ MkHash(t)
        \/ MkName(t)
        \/ Publish(t)
        \/ Unlock(t)
        \/ Return(t)

SpecR == Init /\ [][NextR]_vars

\* Counter values of one and of two digits.
InjCtrs == {0, 1, 11}

\* Tags: the empty one, and ones made of '#' and of a digit.
InjTags == {<<>>, <<35>>, <<49>>, <<35, 49>>, <<49, 35, 49>>}

Inj_jl_tagged_gensym(t) == jl_tagged_gensym_on(t, {<<s, Len(s)>> : s \in InjTags})

Inj_jl_set_gs_ctr(t) == jl_set_gs_ctr_on(t, InjCtrs)

\* The generators are applied to every pair of a tag of InjTags and a counter
\* value of InjCtrs: the counter starts at any of these values, for any of
\* them can have been stored by jl_set_gs_ctr.
InitN ==
    /\ symtab = NULL
    /\ nodes = <<>>
    /\ symtab_lock = 0
    /\ pc = [t \in Threads |-> "idle"]
    /\ op = [t \in Threads |-> "none"]
    /\ str = [t \in Threads |-> <<>>]
    /\ len = [t \in Threads |-> 0]
    /\ h = [t \in Threads |-> 0]
    /\ ptree = [t \in Threads |-> ROOT]
    /\ slot = [t \in Threads |-> ROOT]
    /\ node = [t \in Threads |-> NULL]
    /\ ret = [t \in Threads |-> NULL]
    /\ err = [t \in Threads |-> "none"]
    /\ known = [t \in Threads |-> NULL]
    /\ nlocks = [t \in Threads |-> 0]
    /\ returned = {}
    /\ begun = {}
    /\ gs_ctr \in InjCtrs
    /\ ctr = [t \in Threads |-> Uninit]
    /\ tag = [t \in Threads |-> <<>>]
    /\ taglen = [t \in Threads |-> 0]
    /\ buf = [t \in Threads |-> "none"]
    /\ gslog = <<>>
    /\ gidx = [t \in Threads |-> 0]
    /\ ghist = [set |-> gs_ctr # 0, lowered |-> FALSE, wrapped |-> FALSE]

\* The generators make their names; the counter is stored between them.
NextN ==
    \E t \in Threads :
        \/ Call_jl_gensym(t)
        \/ Inj_jl_tagged_gensym(t)
        \/ Inj_jl_set_gs_ctr(t)

SpecN == InitN /\ [][NextN]_vars

\* One-byte names whose hashes are all the values of a word.
CmpBytes == 1..WordMod

\* The tree after an intern of the one-byte name <<k>>, at the moment thread
\* 1 enters jl_symbol_lookup with the one-byte name <<j>>.
InitCmp ==
    \E k, j \in CmpBytes :
        /\ symtab = 1
        /\ nodes = <<[name |-> <<k>>, hash |-> hash_symbol(<<k>>, 1),
                      left |-> NULL, right |-> NULL]>>
        /\ symtab_lock = 0
        /\ pc = [t \in Threads |-> IF t = 1 THEN "probe1" ELSE "idle"]
        /\ op = [t \in Threads |-> IF t = 1 THEN "jl_symbol_lookup" ELSE "none"]
        /\ str = [t \in Threads |-> IF t = 1 THEN <<j>> ELSE <<>>]
        /\ len = [t \in Threads |-> IF t = 1 THEN 1 ELSE 0]
        /\ h = [t \in Threads |-> IF t = 1 THEN hash_symbol(<<j>>, 1) ELSE 0]
        /\ ptree = [t \in Threads |-> ROOT]
        /\ slot = [t \in Threads |-> ROOT]
        /\ node = [t \in Threads |-> NULL]
        /\ ret = [t \in Threads |-> NULL]
        /\ err = [t \in Threads |-> "none"]
        /\ known = [t \in Threads |-> IF t = 1 /\ j = k THEN 1 ELSE NULL]
        /\ nlocks = [t \in Threads |-> 0]
        /\ returned = {<< <<k>>, 1 >>}
        /\ begun = {<<k>>}
        /\ gs_ctr = 0
        /\ ctr = [t \in Threads |-> Uninit]
        /\ tag = [t \in Threads |-> <<>>]
        /\ taglen = [t \in Threads |-> 0]
        /\ buf = [t \in Threads |-> "none"]
        /\ gslog = <<>>
        /\ gidx = [t \in Threads |-> 0]
        /\ ghist = [set |-> FALSE, lowered |-> FALSE, wrapped |-> FALSE]

\* The search of symtab_lookup and the return of its result.
NextCmp ==
    \E t \in Threads :
        \/ LookupStep(t)
        \/ Return(t)

SpecCmp == InitCmp /\ [][NextCmp]_vars

(***************************************************************************)
(* The tree as a reader sees it                                            *)
(***************************************************************************)
RECURSIVE Reach(_)
Reach(n) ==
    IF n <= 0 THEN {}
    ELSE {n} \cup Reach(nodes[n].left) \cup Reach(nodes[n].right)

Reachable == Reach(symtab)

\* A thread whose intern call has its result in hand.
InternDone(t) == pc[t] = "ret" /\ IsIntern(op[t]) /\ err[t] = "none"

\* <<name, symbol>> of every intern that has produced its result.
Results ==
    returned \cup {<<NameOf(str[t], len[t]), ret[t]>> : t \in {u \in Threads : InternDone(u)}}

Quiescent == \A t \in Threads : pc[t] = "idle"

(***************************************************************************)
(* Properties                                                              *)
(***************************************************************************)

\* C1: any two intern calls of the same name that have produced a result,
\* on one thread or on two, one after the other or overlapping, hold the
\* same symbol.
C1_SameNameSameSymbol ==
    \A p \in Results : \A q \in Results : p[1] = q[1] => p[2] = q[2]

\* Both threads interned one name through the locked path and have the result:
\* one created the node, the other found it when it looked again.
C1_Witness ==
    \E t \in Threads : \E u \in Threads :
        /\ t # u
        /\ InternDone(t) /\ InternDone(u)
        /\ NameOf(str[t], len[t]) = NameOf(str[u], len[u])
        /\ nlocks[t] = 1 /\ nlocks[u] = 1

\* C2: no two nodes of the tree store one name; the names of the completed
\* interns are names of nodes and the names of nodes are names some intern
\* was begun for; when no call is in flight the tree has exactly as many nodes
\* as distinct names were interned.
C2_OneSymbolPerName ==
    /\ \A m \in Reachable : \A n \in Reachable :
          nodes[m].name = nodes[n].name => m = n
    /\ {p[1] : p \in returned} \subseteq {nodes[n].name : n \in Reachable}
    /\ \A n \in Reachable : nodes[n].name \in begun
    /\ Quiescent =>
          Cardinality(Reachable) = Cardinality({p[1] : p \in returned})

\* Three names have been interned, two of them with one hash, and no call is
\* in flight.
C2_Witness ==
    /\ Quiescent
    /\ Cardinality(Reachable) = 3
    /\ \E m \in Reachable : \E n \in Reachable :
          m # n /\ nodes[m].hash = nodes[n].hash

\* C3: a lookup or intern that began after an intern of the same name had
\* returned ends with the symbol that intern returned.
C3_LaterCallsSeeSymbol ==
    \A t \in Threads :
        (pc[t] = "ret" /\ known[t] # NULL) =>
            (err[t] = "none" /\ ret[t] = known[t])

\* A lookup and an intern of names returned before they began both end, in a
\* tree of several nodes.
C3_Witness ==
    \E t \in Threads : \E u \in Threads :
        /\ pc[t] = "ret" /\ op[t] = "jl_symbol_lookup" /\ known[t] # NULL
        /\ pc[u] = "ret" /\ IsIntern(op[u]) /\ known[u] # NULL
        /\ Len(nodes) >= 2

\* C4: a lookup that ends while no intern of its name has begun ends with
\* NotFound; a lookup that began after an intern of its name had returned
\* ends with the symbol that intern returned.
C4_LookupBeforeAndAfter ==
    \A t \in Threads :
        (pc[t] = "ret" /\ op[t] = "jl_symbol_lookup") =>
            /\ NameOf(str[t], len[t]) \notin begun => ret[t] = NULL
            /\ known[t] # NULL => ret[t] = known[t]

\* One lookup ends with NotFound for a name never interned, in a tree that
\* holds a name with the same hash; another ends with a symbol interned before.
C4_Witness ==
    \E t \in Threads : \E u \in Threads :
        /\ pc[t] = "ret" /\ op[t] = "jl_symbol_lookup"
        /\ NameOf(str[t], len[t]) \notin begun
        /\ \E n \in Reachable : nodes[n].hash = h[t]
        /\ pc[u] = "ret" /\ op[u] = "jl_symbol_lookup" /\ known[u] # NULL

\* C5: a successful intern returns a symbol that stores exactly the len
\* bytes given, and interns of different names return different symbols.
C5_StoredNameIsArgument ==
    /\ \A t \in Threads :
          InternDone(t) =>
              /\ ret[t] \in 1..Len(nodes)
              /\ nodes[ret[t]].name = NameOf(str[t], len[t])
    /\ \A p \in Results : \A q \in Results : p[1] # q[1] => p[2] # q[2]

\* An intern of the first len bytes of a longer buffer has returned, and one
\* of another name too.
C5_Witness ==
    \E t \in Threads :
        /\ InternDone(t)
        /\ len[t] < Len(str[t])
        /\ \E p \in returned : p[1] # NameOf(str[t], len[t])

\* A step of thread t that belongs to a read: the call, a step of the first,
\* unlocked probe, or the return of a lookup.
ReadStep(t) ==
    \/ pc[t] = "idle" /\ pc'[t] # "idle"
    \/ pc[t] = "probe1" /\ (pc'[t] # pc[t] \/ ptree'[t] # ptree[t])
    \/ pc[t] = "ret" /\ op[t] = "jl_symbol_lookup" /\ pc'[t] = "idle"

\* C6: a lookup is only ever in the unlocked probe or at its return and
\* never holds the mutex; every step of a lookup, and every step of an intern
\* up to and including a first probe that finds the name, leaves the root, the
\* heap (so nothing is allocated and no field or slot is written) and the
\* mutex unchanged, and such a call returns having never taken the mutex.
C6_ReadsTakeNoLockAndWriteNothing ==
    /\ [](\A t \in Threads :
            op[t] = "jl_symbol_lookup" =>
                /\ pc[t] \in {"probe1", "ret"}
                /\ nlocks[t] = 0
                /\ symtab_lock # t)
    /\ [][\A t \in Threads :
            ReadStep(t) =>
                /\ symtab' = symtab
                /\ nodes' = nodes
                /\ symtab_lock' = symtab_lock
                /\ nlocks'[t] = 0]_vars

\* An intern found its name at the first probe, below the root, while the
\* other thread held the mutex.
C6_Witness ==
    \E t \in Threads :
        /\ pc[t] = "ret" /\ IsIntern(op[t]) /\ err[t] = "none"
        /\ nlocks[t] = 0 /\ ret[t] # NULL /\ ret[t] # symtab
        /\ symtab_lock \in Threads

InCritical(t) ==
    pc[t] \in {"recheck", "probe2", "unlock_found", "mk_alloc", "mk_children",
               "mk_hash", "mk_name", "publish", "unlock"}

\* A node is stored into the root or into a child slot.
PublishingStore ==
    \/ symtab' # symtab
    \/ \E n \in 1..Len(nodes) :
          \/ nodes'[n].left # nodes[n].left /\ nodes'[n].left > 0
          \/ nodes'[n].right # nodes[n].right /\ nodes'[n].right > 0

\* C7: at most one thread is between lock and unlock and it is the holder
\* of the mutex; no call takes the mutex twice; every store of a node into the
\* root or a child slot is a step of the thread that holds the mutex.
C7_InsertionsSerialized ==
    /\ [](\A t \in Threads :
            /\ InCritical(t) => symtab_lock = t
            /\ nlocks[t] <= 1
            /\ \A u \in Threads : (InCritical(t) /\ InCritical(u)) => t = u)
    /\ [][PublishingStore =>
            /\ symtab_lock \in Threads
            /\ symtab_lock' = symtab_lock
            /\ pc[symtab_lock] = "publish"
            /\ pc'[symtab_lock] = "unlock"]_vars

\* One thread is about to publish while the other waits for the mutex.
C7_Witness ==
    \E t \in Threads : \E u \in Threads :
        pc[t] = "publish" /\ slot[t] # ROOT /\ pc[u] = "lock"

Initialised(nd) ==
    /\ nd.name # UninitName
    /\ nd.hash = hash_symbol(nd.name, Len(nd.name))
    /\ nd.left # Uninit
    /\ nd.right # Uninit

\* This step stores node n into the root or into a child slot.
StoredIntoSlot(n) ==
    \/ symtab' = n /\ symtab # n
    \/ \E m \in 1..Len(nodes) :
          \/ nodes'[m].left = n /\ nodes[m].left # n
          \/ nodes'[m].right = n /\ nodes[m].right # n

\* C8: every node reachable from the root, and every node a search stands
\* in, has its name, the hash of that name and both child slots written; a
\* node that becomes reachable has both children unset at that moment.
C8_PublishedNodesInitialised ==
    /\ [](/\ \A n \in Reachable : Initialised(nodes[n])
          /\ \A t \in Threads :
                (pc[t] \in {"probe1", "probe2"} /\ ptree[t] # ROOT) =>
                    Initialised(nodes[ptree[t][1]]))
    /\ [][\A n \in 1..Len(nodes') :
            StoredIntoSlot(n) =>
                /\ Initialised(nodes'[n])
                /\ nodes'[n].left = NULL
                /\ nodes'[n].right = NULL]_vars

\* A reader already stands in a node whose publisher has not yet released
\* the mutex.
C8_Witness ==
    \E t \in Threads : \E u \in Threads :
        /\ pc[u] = "unlock"
        /\ pc[t] = "probe1"
        /\ ptree[t] # ROOT
        /\ ptree[t][1] = node[u]

\* C9: an intern of a name of MAX_SYM_LEN bytes returns a symbol storing
\* that name; an intern of a longer name throws NameTooLong.
C9_LengthBoundary ==
    \A t \in Threads :
        (pc[t] = "ret" /\ IsIntern(op[t]) /\ ~memchr0(str[t], len[t])) =>
            /\ len[t] = MAX_SYM_LEN =>
                  /\ err[t] = "none"
                  /\ ret[t] \in Reachable
                  /\ nodes[ret[t]].name = NameOf(str[t], len[t])
            /\ len[t] > MAX_SYM_LEN => err[t] = "NameTooLong"

\* One intern of exactly MAX_SYM_LEN bytes has succeeded while one of
\* MAX_SYM_LEN + 1 bytes has failed.
C9_Witness ==
    \E t \in Threads : \E u \in Threads :
        /\ pc[t] = "ret" /\ op[t] = "_jl_symbol" /\ len[t] = MAX_SYM_LEN
        /\ err[t] = "none" /\ nlocks[t] = 1
        /\ pc[u] = "ret" /\ op[u] = "_jl_symbol" /\ len[u] = MAX_SYM_LEN + 1
        /\ err[u] = "NameTooLong"

\* The symbol intern returns for the name of thread t's call.
IsSymbolOfName(t) ==
    /\ err[t] = "none"
    /\ ret[t] \in Reachable
    /\ nodes[ret[t]].name = NameOf(str[t], len[t])
    /\ \A p \in Results : p[1] = NameOf(str[t], len[t]) => p[2] = ret[t]

\* C10 as stated: internChecked throws EmbeddedNul when a terminator is
\* among the first len bytes, and otherwise succeeds with the symbol intern
\* returns.
C10_Original ==
    \A t \in Threads :
        (pc[t] = "ret" /\ op[t] = "jl_symbol_n") =>
            IF memchr0(str[t], len[t])
            THEN err[t] = "EmbeddedNul"
            ELSE IsSymbolOfName(t)

\* C10 amended: internChecked throws EmbeddedNul when a terminator is among
\* the first len bytes; otherwise it does what intern does: it throws
\* NameTooLong when len exceeds MAX_SYM_LEN and else succeeds with the symbol
\* intern returns.
C10_CheckedIntern ==
    \A t \in Threads :
        (pc[t] = "ret" /\ op[t] = "jl_symbol_n") =>
            IF memchr0(str[t], len[t])
            THEN err[t] = "EmbeddedNul" /\ ret[t] = NULL
            ELSE IF len[t] > MAX_SYM_LEN
                 THEN err[t] = "NameTooLong"
                 ELSE IsSymbolOfName(t)

\* One checked intern has thrown EmbeddedNul while another has returned the
\* symbol an unchecked intern returned before.
C10_Witness ==
    \E t \in Threads : \E u \in Threads :
        /\ pc[t] = "ret" /\ op[t] = "jl_symbol_n" /\ err[t] = "EmbeddedNul"
        /\ pc[u] = "ret" /\ op[u] = "jl_symbol_n" /\ err[u] = "none"
        /\ \E p \in returned : p = <<NameOf(str[u], len[u]), ret[u]>>

(***************************************************************************)
(* Failures, the counter and the generated names                           *)
(***************************************************************************)
\* The step in which a call of thread t fails.
Fails(t) == pc[t] = "idle" /\ pc'[t] = "ret" /\ err'[t] # "none"

\* C11: a call of _jl_symbol, jl_symbol_n or jl_tagged_gensym that fails with
\* NameTooLong or EmbeddedNul fails before it allocates, takes the lock or
\* advances the counter, and leaves the tree, the lock and the counter as
\* they were.
C11_FailuresTouchNothing ==
    /\ [](\A t \in Threads :
            err[t] # "none" =>
                /\ pc[t] = "ret"
                /\ node[t] = NULL
                /\ buf[t] = "none"
                /\ nlocks[t] = 0
                /\ ctr[t] = Uninit
                /\ symtab_lock # t)
    /\ [][\A t \in Threads :
            Fails(t) => /\ symtab' = symtab
                        /\ nodes' = nodes
                        /\ symtab_lock' = symtab_lock
                        /\ gs_ctr' = gs_ctr]_vars

C11_Witness ==
    \E t, u \in Threads :
        /\ err[t] = "NameTooLong" /\ op[t] = "jl_tagged_gensym"
        /\ err[u] = "EmbeddedNul" /\ op[u] = "jl_symbol_n"
        /\ gs_ctr > 0
        /\ symtab # NULL

\* The calls, in the order of their fetch_add, that took a counter value
\* and have returned.
Done == {i \in 1..Len(gslog) : gslog[i].sym # NULL}

Plain == {i \in 1..Len(gslog) : gslog[i].op = "jl_gensym"}

\* The step in which thread t calls o.
Calls(t, o) == pc[t] = "idle" /\ pc'[t] # "idle" /\ op'[t] = o

\* C12: a jl_gensym call returns the symbol named "##" and the decimal
\* digits of the value the counter had before the call, and advances the
\* counter by one; calls that start from 0, one after the other, return
\* distinct symbols named "##0", "##1", ... in the order of the calls.
C12_FreshSymbol ==
    /\ [](\A t \in Threads :
            (pc[t] = "ret" /\ op[t] = "jl_gensym") =>
                /\ err[t] = "none"
                /\ ret[t] \in Reachable
                /\ nodes[ret[t]].name = <<35, 35>> \o DecDigits(ctr[t]))
    /\ [](~ghist.set /\ Plain = 1..Len(gslog) =>
            /\ \A i \in Done : nodes[gslog[i].sym].name = <<35, 35>> \o DecDigits(i - 1)
            /\ \A i, j \in Done : i # j => gslog[i].sym # gslog[j].sym)
    /\ [][\A t \in Threads :
            Calls(t, "jl_gensym") =>
                /\ ctr'[t] = gs_ctr
                /\ gs_ctr' = (gs_ctr + 1) % CtrMod]_vars

C12_Witness ==
    /\ ~ghist.set
    /\ Plain = 1..MaxGensyms
    /\ Done = Plain
    /\ nodes[gslog[1].sym].name = <<35, 35, 48>>
    /\ nodes[gslog[2].sym].name = <<35, 35, 49>>
    /\ gs_ctr = MaxGensyms

\* A jl_gensym call of thread t that took the largest counter value, which
\* the counter has only after jl_set_gs_ctr stored it, has its result.
AfterSetMax(t) ==
    /\ pc[t] = "ret" /\ op[t] = "jl_gensym"
    /\ ghist.set /\ ctr[t] = CtrMax

\* C13 as stated: the jl_gensym call that follows jl_set_gs_ctr(2^32 - 1)
\* returns the symbol named "##0".
C13_Original ==
    \A t \in Threads : AfterSetMax(t) => nodes[ret[t]].name = <<35, 35, 48>>

\* C13 amended: the jl_gensym call that follows jl_set_gs_ctr(2^32 - 1)
\* returns the symbol named "##" and the digits of 2^32 - 1, and wraps the
\* counter to 0; the jl_gensym call that finds the counter at 0 returns "##0".
C13_WrapAfterMax ==
    /\ [](\A t \in Threads :
            /\ AfterSetMax(t) => nodes[ret[t]].name = <<35, 35>> \o DecDigits(CtrMax)
            /\ (pc[t] = "ret" /\ op[t] = "jl_gensym" /\ ctr[t] = 0) =>
                    nodes[ret[t]].name = <<35, 35, 48>>)
    /\ [][\A t \in Threads :
            (Calls(t, "jl_gensym") /\ gs_ctr = CtrMax) =>
                ctr'[t] = CtrMax /\ gs_ctr' = 0]_vars

C13_Witness ==
    /\ ghist.set /\ ghist.wrapped
    /\ Len(gslog) = 2 /\ Done = Plain /\ Plain = {1, 2}
    /\ gslog[1].ctr = CtrMax
    /\ nodes[gslog[1].sym].name = <<35, 35>> \o DecDigits(CtrMax)
    /\ gslog[2].ctr = 0
    /\ nodes[gslog[2].sym].name = <<35, 35, 48>>

\* A jl_tagged_gensym call of thread t has its result.
TaggedDone(t) == pc[t] = "ret" /\ op[t] = "jl_tagged_gensym" /\ err[t] = "none"

\* The name jl_tagged_gensym is to make for thread t.
TaggedName(t) ==
    <<35, 35>> \o NameOf(tag[t], taglen[t]) \o <<35>> \o DecDigits(ctr[t])

\* C14: jl_tagged_gensym returns the symbol named "##", the len bytes of the
\* tag, "#" and the decimal digits of the value the counter had before the
\* call, 3 + len + digits bytes in all, whether the name was built on the
\* stack (short tag) or on the heap (long tag).
C14_TaggedName ==
    \A t \in Threads :
        TaggedDone(t) =>
            /\ ret[t] \in Reachable
            /\ nodes[ret[t]].name = TaggedName(t)
            /\ Len(nodes[ret[t]].name) = 3 + taglen[t] + Len(DecDigits(ctr[t]))
            /\ buf[t] = IF taglen[t] >= HeapThreshold THEN "heap" ELSE "stack"

C14_Witness ==
    \E t, u \in Threads :
        /\ TaggedDone(t) /\ buf[t] = "stack" /\ taglen[t] = 1
        /\ TaggedDone(u) /\ buf[u] = "heap" /\ taglen[u] = TagMax
        /\ nodes[ret[t]].name = TaggedName(t)
        /\ nodes[ret[u]].name = TaggedName(u)
        /\ {ctr[t], ctr[u]} = {CtrMax, 0}

\* No two gensym calls that have returned hold the same symbol.
AllDistinct == \A i, j \in Done : i # j => gslog[i].sym # gslog[j].sym

\* C15 as stated: as long as the counter has not wrapped, no two calls of
\* jl_gensym or jl_tagged_gensym return the same symbol.
C15_Original == ~ghist.wrapped => AllDistinct

\* C15 amended: as long as the counter has not wrapped and jl_set_gs_ctr has
\* not lowered it, no two calls of jl_gensym or jl_tagged_gensym return the
\* same symbol.
C15_UniquePerCall == (~ghist.wrapped /\ ~ghist.lowered) => AllDistinct

C15_Witness ==
    /\ ghist.set /\ ~ghist.wrapped /\ ~ghist.lowered
    /\ Done = 1..MaxGensyms
    /\ \E i, j \in Done : gslog[i].op # gslog[j].op
    /\ AllDistinct

\* The name begins with the two bytes every gensym name begins with.
LooksGenerated(nm) == Len(nm) >= 2 /\ nm[1] = 35 /\ nm[2] = 35

TaggedOver(t) ==
    pc[t] = "ret" /\ op[t] = "jl_tagged_gensym" /\ err[t] # "EmbeddedNul"

\* The length of the tag of that call.
TagLenOf(t) == IF err[t] = "none" THEN taglen[t] ELSE len[t]

\* The length of the name made of that tag: with the digits of the value the
\* call took, or of the value of the counter where the call took none.
GeneratedLen(t) ==
    3 + TagLenOf(t) + Len(DecDigits(IF err[t] = "none" THEN ctr[t] ELSE gs_ctr))

\* C17 as stated: jl_tagged_gensym fails with NameTooLong exactly when the
\* length of the generated name, 2 + len + 1 + digits, is above MAX_SYM_LEN.
C17_Original ==
    \A t \in Threads :
        TaggedOver(t) =>
            (err[t] = "NameTooLong" <=> GeneratedLen(t) > MAX_SYM_LEN)

\* C17 amended: jl_tagged_gensym fails with NameTooLong exactly when the
\* length of the tag and the 17 bytes kept for "##", "#" and the digits
\* together are above MAX_SYM_LEN, whatever the counter holds; for every
\* other tag it succeeds.
C17_TooLongByReserve ==
    \A t \in Threads :
        TaggedOver(t) =>
            /\ err[t] \in {"none", "NameTooLong"}
            /\ err[t] = "NameTooLong" <=> TagLenOf(t) + GsNameSize + 3 > MAX_SYM_LEN
            /\ err[t] = "none" => GeneratedLen(t) <= MAX_SYM_LEN

C17_Witness ==
    \E t, u \in Threads :
        /\ TaggedOver(t) /\ err[t] = "NameTooLong"
        /\ len[t] = TagMax + 1 /\ GeneratedLen(t) <= MAX_SYM_LEN
        /\ TaggedOver(u) /\ err[u] = "none" /\ taglen[u] = TagMax

\* The step is the fetch_add of a gensym call.
Takes ==
    \E t \in Threads :
        /\ Calls(t, "jl_gensym") \/ Calls(t, "jl_tagged_gensym")
        /\ err'[t] = "none"

\* The step wraps the counter.
Wraps == gs_ctr = CtrMax /\ gs_ctr' = 0

\* C18 as stated: the counter never decreases from one state to the next.
C18_Original == [][gs_ctr' >= gs_ctr]_vars

\* C18 amended: jl_get_gs_ctr leaves the counter as it is; a gensym call
\* that does not fail raises it by one, or wraps it from its largest value to
\* 0; every other decrease is a jl_set_gs_ctr that stores a value below the
\* counter.
C18_CounterSteps ==
    [][/\ (\E t \in Threads : Calls(t, "jl_get_gs_ctr")) => gs_ctr' = gs_ctr
       /\ Takes => (gs_ctr' = gs_ctr + 1 \/ Wraps)
       /\ (gs_ctr' < gs_ctr /\ ~(Takes /\ Wraps)) =>
              /\ pc' = pc
              /\ gs_ctr' \in SetValues
              /\ ghist'.lowered]_vars

C18_Witness ==
    /\ ghist.lowered /\ ghist.wrapped
    /\ Len(gslog) = MaxGensyms
    /\ gs_ctr = 0
    /\ \E t \in Threads : pc[t] = "ret" /\ op[t] = "jl_get_gs_ctr" /\ ctr[t] = 1

(***************************************************************************)
(* The order of the tree                                                   *)
(***************************************************************************)
\* The byte string a is before b: a is a proper prefix of b, or holds the
\* lesser byte where they first differ.
RECURSIVE LexLess(_, _)
LexLess(a, b) ==
    IF b = <<>> THEN FALSE
    ELSE IF a = <<>> THEN TRUE
    ELSE IF Head(a) # Head(b) THEN Head(a) < Head(b)
    ELSE LexLess(Tail(a), Tail(b))

\* line 56: the order the tree is said to be sorted by, node a before node b
Before(a, b) ==
    \/ nodes[a].hash < nodes[b].hash
    \/ nodes[a].hash = nodes[b].hash /\ LexLess(nodes[a].name, nodes[b].name)

\* C19: the tree is a binary search tree under the order of hash, then name
\* bytes: every node of a left subtree is before the node above it, and
\* every node of a right subtree is after it.
C19_Original ==
    \A n \in Reachable :
        /\ \A m \in Reach(nodes[n].left) : Before(m, n)
        /\ \A m \in Reach(nodes[n].right) : Before(n, m)

\* A lookup of thread t has gone down from a node whose hash is not its own.
WentDown(t) ==
    /\ op[t] = "jl_symbol_lookup"
    /\ ptree[t] # ROOT
    /\ h[t] # nodes[ptree[t][1]].hash

\* C20: where the hash of the probe is not the hash of the node, the search
\* goes left exactly when the hash of the probe, as an unsigned word, is
\* less than the hash of the node, for every pair of hashes.
C20_Original ==
    \A t \in Threads :
        WentDown(t) => (ptree[t][2] = "left" <=> h[t] < nodes[ptree[t][1]].hash)

(***************************************************************************)
(* Collisions, the second search, the slots                                *)
(***************************************************************************)
\* A call of thread t has ended with a symbol.
Found(t) == pc[t] = "ret" /\ err[t] = "none" /\ ret[t] # NULL

\* C21: whatever names share a hash, a probe matches a node only when the
\* stored name has the length and the bytes of the probe; of names that
\* collide, one a proper prefix of the other, each has a symbol of its own,
\* and a lookup of either ends with that symbol, whichever was interned
\* first.
C21_CollidingPrefixes ==
    /\ \A t \in Threads :
          Found(t) => /\ ret[t] \in Reachable
                      /\ nodes[ret[t]].name = NameOf(str[t], len[t])
                      /\ nodes[ret[t]].hash = h[t]
    /\ \A p \in Results : \A q \in Results : p[1] # q[1] => p[2] # q[2]
    /\ \A t \in Threads :
          (pc[t] = "ret" /\ known[t] # NULL) => ret[t] = known[t]
    /\ \A t \in Threads :
          (pc[t] = "ret" /\ op[t] = "jl_symbol_lookup"
             /\ NameOf(str[t], len[t]) \notin begun) => ret[t] = NULL

\* The three colliding names have symbols, the longest interned first and
\* the empty name last, and a lookup of the one between has found its own.
C21_Witness ==
    /\ Cardinality(Reachable) = 3
    /\ \A m \in Reachable : nodes[m].hash = nodes[symtab].hash
    /\ nodes[1].name = <<CollByte, CollByte>>
    /\ nodes[3].name = <<>>
    /\ \E t \in Threads :
          /\ Found(t) /\ op[t] = "jl_symbol_lookup"
          /\ str[t] = <<CollByte>>
          /\ ret[t] = 2

\* lines 53-75 run to their end in the tree as it is: the node found, or
\* NULL, and the slot the search ends at.
RECURSIVE symtab_lookup(_, _, _, _)
symtab_lookup(pt, hh, s, n) ==
    LET nd == ReadSlot(pt)
    IN  IF nd = NULL \/ Matches(hh, s, n, nodes[nd])
        THEN <<nd, pt>>
        ELSE symtab_lookup(Descend(Compare(hh, s, n, nodes[nd]), nd), hh, s, n)

\* What a search from the root would give thread t now.
FromRoot(t) == symtab_lookup(ROOT, h[t], str[t], len[t])

\* Thread t holds the mutex and is building or storing its node.
Inserting(t) == pc[t] \in {"mk_alloc", "mk_children", "mk_hash", "mk_name", "publish"}

\* C22: under the mutex, the search that starts again at the slot the first
\* probe ended at gives what a search from the root gives: it finds the name
\* exactly when the name is in the tree, and otherwise ends at the empty
\* slot a search from the root ends at, into which the new node is stored.
C22_SearchFromSlot ==
    \A t \in Threads :
        /\ pc[t] = "recheck" =>
              symtab_lookup(slot[t], h[t], str[t], len[t]) = FromRoot(t)
        /\ pc[t] = "probe2" =>
              symtab_lookup(ptree[t], h[t], str[t], len[t]) = FromRoot(t)
        /\ pc[t] = "unlock_found" =>
              /\ FromRoot(t) = <<node[t], slot[t]>>
              /\ node[t] \in Reachable
              /\ nodes[node[t]].name = NameOf(str[t], len[t])
        /\ Inserting(t) =>
              /\ FromRoot(t) = <<NULL, slot[t]>>
              /\ \A n \in Reachable : nodes[n].name # NameOf(str[t], len[t])
        /\ pc[t] = "unlock" =>
              /\ FromRoot(t) = <<node[t], slot[t]>>
              /\ ReadSlot(slot[t]) = node[t]

\* The slot the first probe ended at, below the root, has been filled with
\* another name since, and the second search has to go on from there to the
\* empty slot a search from the root ends at.
C22_Witness ==
    \E t \in Threads :
        /\ pc[t] = "probe2"
        /\ ptree[t] = slot[t] /\ slot[t] # ROOT
        /\ ReadSlot(slot[t]) # NULL
        /\ FromRoot(t)[1] = NULL
        /\ FromRoot(t)[2] # slot[t]

\* A slot that held old holds new after the step: unchanged, or filled, from
\* unset, by the store of line 97 with the node its thread has just made.
SlotStep(old, new) ==
    new # old =>
        /\ old = NULL
        /\ new \in 1..Len(nodes)
        /\ new \notin Reachable
        /\ \E t \in Threads :
              /\ pc[t] = "publish" /\ pc'[t] = "unlock"
              /\ symtab_lock = t
              /\ node[t] = new

\* C23: the name and the hash of a published symbol never change; the root
\* slot and the child slots of published symbols change only from unset to
\* a node just made, in the store of the insert path, so each changes at
\* most once; no node leaves the tree.
C23_WriteOnce ==
    [][/\ SlotStep(symtab, symtab')
       /\ \A n \in Reachable :
             /\ nodes'[n].name = nodes[n].name
             /\ nodes'[n].hash = nodes[n].hash
             /\ SlotStep(nodes[n].left, nodes'[n].left)
             /\ SlotStep(nodes[n].right, nodes'[n].right)
       /\ Reachable \subseteq Reachable']_vars

\* The root slot and both child slots of the root have been filled, the
\* second of them in the step before.
C23_Witness ==
    /\ symtab # NULL
    /\ nodes[symtab].left \in Reachable
    /\ nodes[symtab].right \in Reachable
    /\ \E t \in Threads : pc[t] = "unlock" /\ slot[t] # ROOT

(***************************************************************************)
(* Termination                                                             *)
(***************************************************************************)
\* C24: under fair scheduling every lookup and every intern ends; a thread
\* holds the mutex only between line 90 and line 94 or 98, never when it
\* returns; the mutex is always released again, and a thread that waits for
\* it gets it.
C24_Terminates ==
    /\ [](\A t \in Threads :
            pc[t] \in {"idle", "probe1", "lock", "ret"} => symtab_lock # t)
    /\ \A t \in Threads : (pc[t] # "idle") ~> (pc[t] = "ret")
    /\ \A t \in Threads : (pc[t] = "lock") ~> (symtab_lock = t)
    /\ (symtab_lock # 0) ~> (symtab_lock = 0)

\* One thread waits for the mutex while the other, which holds it, searches
\* again.
C24_Witness ==
    \E t \in Threads : \E u \in Threads :
        /\ pc[t] = "lock"
        /\ symtab_lock = u
        /\ pc[u] = "probe2"

(***************************************************************************)
(* The counter under concurrent calls                                      *)
(***************************************************************************)
\* C25: the fetch_add of jl_gensym and of jl_tagged_gensym is one atomic
\* step on one counter: a call takes the value the counter has and leaves it
\* one higher, modulo the width of the counter, and nothing but these calls
\* and jl_set_gs_ctr changes it; so n calls, however interleaved, with no
\* jl_set_gs_ctr between them take n consecutive values, no value twice,
\* and leave the counter n above where it was.
C25_AtomicIncrement ==
    /\ [](~ghist.set =>
            /\ \A i \in 1..Len(gslog) : gslog[i].ctr = i - 1
            /\ gs_ctr = Len(gslog))
    /\ [](\A i \in 1..Len(gslog) - 1 :
            gslog[i + 1].ctr # (gslog[i].ctr + 1) % CtrMod => ghist.set)
    /\ [][/\ Takes =>
              /\ gs_ctr' = (gs_ctr + 1) % CtrMod
              /\ Len(gslog') = Len(gslog) + 1
              /\ gslog'[Len(gslog')].ctr = gs_ctr
              /\ \E t \in Threads : pc[t] = "idle" /\ ctr'[t] = gs_ctr
          /\ gs_ctr' # gs_ctr => (Takes \/ (pc' = pc /\ ghist'.set))]_vars

\* A jl_gensym call and a jl_tagged_gensym call overlap, with no
\* jl_set_gs_ctr so far, and hold the values 0 and 1.
C25_Witness ==
    \E t \in Threads : \E u \in Threads :
        /\ ~ghist.set
        /\ op[t] = "jl_gensym" /\ pc[t] \notin {"idle", "ret"} /\ ctr[t] = 1
        /\ op[u] = "jl_tagged_gensym" /\ pc[u] \notin {"idle", "ret"} /\ ctr[u] = 0
        /\ gs_ctr = 2

(***************************************************************************)
(* The root                                                                *)
(***************************************************************************)
\* The symbols handed to callers so far: by interns, by gensym calls, and by
\* the calls that have their result in hand.
Handed ==
    {p[2] : p \in returned}
        \cup {gslog[i].sym : i \in Done}
        \cup {ret[t] : t \in {u \in Threads : Found(u)}}

\* C26: the root slot is stored into once, by the first insertion, and keeps
\* that node; every symbol handed out by an intern, a lookup or a gensym call
\* can be reached by child links from the node jl_get_root_symbol returns.
C26_RootOnce ==
    /\ [](/\ symtab \in {NULL, 1}
          /\ Handed \subseteq Reach(symtab)
          /\ \A t \in Threads :
                (pc[t] = "ret" /\ op[t] = "jl_get_root_symbol" /\ ret[t] # NULL) =>
                    /\ ret[t] = symtab
                    /\ Handed \subseteq Reach(ret[t]))
    /\ [][/\ symtab' # symtab =>
                /\ symtab = NULL
                /\ Reachable = {}
                /\ \E t \in Threads :
                      /\ pc[t] = "publish" /\ slot[t] = ROOT
                      /\ symtab' = node[t] /\ node[t] = 1
          /\ \A t \in Threads :
                Calls(t, "jl_get_root_symbol") => ret'[t] = symtab]_vars

\* jl_get_root_symbol has returned the root of a tree whose symbols were
\* interned, looked up and generated by both generators.
C26_Witness ==
    \E t \in Threads : \E u \in Threads :
        /\ pc[t] = "ret" /\ op[t] = "jl_get_root_symbol" /\ ret[t] = 1
        /\ Found(u) /\ op[u] = "jl_symbol_lookup" /\ ret[u] # symtab
        /\ returned # {}
        /\ Done = 1..MaxGensyms
        /\ \E i \in Done : \E j \in Done : gslog[i].op # gslog[j].op
        /\ Cardinality(Handed) >= 3

(***************************************************************************)
(* The generated names                                                     *)
(***************************************************************************)
\* Thread t has made a generated name and handed it to _jl_symbol.
Generated(t) == gidx[t] # 0 /\ pc[t] # "idle"

\* The name thread t handed to _jl_symbol.
NameHanded(t) == NameOf(str[t], len[t])

\* C27: two generated names are equal only if they come from the same
\* generator, with equal tags and equal counter values: a jl_gensym name is
\* never a jl_tagged_gensym name, also for the empty tag and for tags that
\* hold '#' or digits; and equal arguments give equal names.
C27_NamesInjective ==
    \A t \in Threads : \A u \in Threads :
        (Generated(t) /\ Generated(u)) =>
            (NameHanded(t) = NameHanded(u)
                <=> /\ op[t] = op[u]
                    /\ NameOf(tag[t], taglen[t]) = NameOf(tag[u], taglen[u])
                    /\ ctr[t] = ctr[u])

\* The name "##11" of jl_gensym next to the name "##1#1" of
\* jl_tagged_gensym: the same bytes but for the '#' that ends the tag.
C27_Witness ==
    \E t \in Threads : \E u \in Threads :
        /\ Generated(t) /\ op[t] = "jl_gensym" /\ ctr[t] = 11
        /\ NameHanded(t) = <<35, 35, 49, 49>>
        /\ Generated(u) /\ op[u] = "jl_tagged_gensym" /\ ctr[u] = 1
        /\ NameHanded(u) = <<35, 35, 49, 35, 49>>

====
